---- MODULE Spec2Model ----
(***************************************************************************)
(* dbsync: the server's push / pull handlers (dbsync/server/handlers.py)   *)
(* and the client's operation compression (dbsync/client/compression.py).  *)
(*                                                                         *)
(* Four specifications share the module:                                   *)
(*   Spec   the synchronization server: concurrent handle_push requests,   *)
(*          handle_pull and trim over the Version and Operation tables     *)
(*          and the tracked rows;                                          *)
(*   SpecC  compaction on a node: compress() over the node's operations    *)
(*          table and compressed_operations() over a list, both started    *)
(*          from every bounded set of operations;                          *)
(*   SpecD  compress() alone, on larger tables of several rows;            *)
(*   SpecT  trim and the push message round trip (tests/push_message_      *)
(*          tests.py) on a node's tables of Versions and Operations.       *)
(***************************************************************************)
EXTENDS Integers, Sequences, FiniteSets, TLC

(* ------------------------------- bounds -------------------------------- *)

\* versions the server creates before requests stop arriving
MaxVersions == 2
\* operations in one PushMessage
MaxPushOps == 2
\* operations handed to compaction
MaxLen == 3
\* unversioned operations in a node's table when only compress() runs on it
MaxTable == 5

(* ------------------------------ domains -------------------------------- *)

\* Python's None where an integer key is expected
None == -1

Commands == {"i", "u", "d"}
RowIds == {1}
ContentTypes == {1}
Nodes == {1, 2}
Requests == {1, 2}

\* 'order' values a client may have given to the operations it pushes
ClientOrders == 1..MaxPushOps

VARIABLES
    versions,     \* Version table: the version_id of every row
    operations,   \* Operation table: set of rows
    rows,         \* tracked objects in the database: <<row_id, content_type_id>>
    pc,           \* per push request: "idle" or "started" (handle_push called)
    given,        \* per push request: the latest_version_id its message carries
    seen,         \* per push request: the ledger's latest version id when it started
    response,     \* what the last handler returned or raised
    compressOut,  \* how the last compress() ended: "none", "ok", "AssertionError"
    compressRuns, \* compress() calls so far
    coIn,         \* the unversioned operations the node starts with, as a list
    coOut,        \* what the last compressed_operations call returned
    coPass,       \* compressed_operations calls so far
    sent,         \* to_json() of the last PushMessage a node built
    resent        \* to_json() of the PushMessage parsed from 'sent'

serverVars == <<versions, rows, pc, given, seen, response>>
clientVars == <<compressOut, compressRuns, coIn, coOut, coPass, sent, resent>>
vars == <<versions, operations, rows, pc, given, seen, response,
          compressOut, compressRuns, coIn, coOut, coPass, sent, resent>>

(* ------------------------------ helpers -------------------------------- *)

Max(S) == CHOOSE x \in S : \A y \in S : y <= x

Range(s) == {s[i] : i \in 1..Len(s)}

\* the elements of S as a list, ascending by 'order' (orders are distinct:
\* 'order' is the primary key of the operations table)
RECURSIVE SortedByOrder(_)
SortedByOrder(S) ==
    IF S = {} THEN << >>
    ELSE LET first == CHOOSE x \in S : \A y \in S \ {x} : x.order < y.order
         IN  <<first>> \o SortedByOrder(S \ {first})

\* sorted(seq, key=attr('order'))
sorted(seq) == SortedByOrder(Range(seq))

\* core.get_latest_version_id: the greatest version_id, None on an empty table
get_latest_version_id(vs) == IF vs = {} THEN None ELSE Max(vs)

\* key the database gives the next Version row
NextVersionId(vs) == IF vs = {} THEN 1 ELSE Max(vs) + 1

\* key the database gives the next Operation row
NextOrder(ops) == IF ops = {} THEN 1 ELSE Max({o.order : o \in ops}) + 1

(* --------------------------- push messages ----------------------------- *)

PushOp == [order : ClientOrders, row_id : RowIds,
           content_type_id : ContentTypes, command : Commands]

OpLists ==
    {s \in UNION {[1..n -> PushOp] : n \in 0..MaxPushOps} :
        \A i, j \in 1..Len(s) : i # j => s[i].order # s[j].order}

VersionIds == {None} \cup (1..MaxVersions)

\* data of a push request. valid = FALSE: a key PushMessage needs is missing.
\* signature names the node whose secret signed the message.
PushData(v) ==
    [valid : {TRUE}, node_id : Nodes, latest_version_id : {v},
     operations : OpLists, signature : Nodes]
    \cup
    [valid : {FALSE}, node_id : {1}, latest_version_id : {v},
     operations : {<< >>}, signature : {1}]

\* PushMessage.islegit: the signature verifies against the sending node's secret
islegit(m) == m.signature = m.node_id

(* ----------------------------- handle_push ------------------------------ *)

\* Operation.perform on the session's view of the tracked rows: the new view,
\* or OperationError
perform(op, rws) ==
    LET key == <<op.row_id, op.content_type_id>> IN
    CASE op.command = "i" ->
            IF key \in rws THEN [error |-> TRUE, rows |-> rws]
            ELSE [error |-> FALSE, rows |-> rws \cup {key}]
      [] op.command = "u" ->
            IF key \in rws THEN [error |-> FALSE, rows |-> rws]
            ELSE [error |-> TRUE, rows |-> rws]
      [] op.command = "d" ->
            IF key \in rws THEN [error |-> FALSE, rows |-> rws \ {key}]
            ELSE [error |-> TRUE, rows |-> rws]

\* for op in message.operations: op.perform(...)   -- in list order, from the
\* i-th operation on; stops at the first OperationError
RECURSIVE perform_all(_, _, _)
perform_all(ops, i, rws) ==
    IF i > Len(ops) THEN [error |-> FALSE, at |-> 0, rows |-> rws]
    ELSE LET r == perform(ops[i], rws) IN
         IF r.error THEN [error |-> TRUE, at |-> i, rows |-> r.rows]
         ELSE perform_all(ops, i + 1, r.rows)

\* the admission checks of handle_push, in the order of the code
admission(data, vs) ==
    IF ~data.valid THEN "invalid"
    ELSE IF get_latest_version_id(vs) # data.latest_version_id THEN
        \* "... given: %d" % message.latest_version_id
        IF data.latest_version_id = None THEN "TypeError" ELSE "stale"
    ELSE IF data.operations = << >> THEN "empty"
    ELSE IF ~islegit(data) THEN "unsigned"
    ELSE "admitted"

new_op_keeps_order(op, key, version) ==
    [order |-> op.order, row_id |-> op.row_id, content_type_id |-> op.content_type_id,
     command |-> op.command, version_id |-> version]

\* new_op: every property of op but 'order'; the database gives the key,
\* new_op.version = version
new_op(op, key, version) ==
    [order |-> key, row_id |-> op.row_id, content_type_id |-> op.content_type_id,
     command |-> op.command, version_id |-> version]

inserted_operations_in_list_order(ops, table, version) ==
    {new_op(ops[k], NextOrder(table) + k - 1, version) : k \in 1..Len(ops)}

\* the Operation rows a push adds: one per operation, in ascending client order
inserted_operations(ops, table, version) ==
    LET s == sorted(ops) IN
    {new_op(s[k], NextOrder(table) + k - 1, version) : k \in 1..Len(s)}

\* raise PushRejected(reason, ...); 'at' is the position of the operation
\* that could not be performed (0: none)
Rejected(status, at) ==
    [kind |-> "push", status |-> status, new_version_id |-> None, at |-> at,
     all |-> FALSE, versions |-> << >>]

NoResponse ==
    [kind |-> "none", status |-> "none", new_version_id |-> None, at |-> 0,
     all |-> FALSE, versions |-> << >>]

\* no PushMessage built yet
NoMessage ==
    [node_id |-> None, latest_version_id |-> None, operations |-> << >>,
     signature |-> None]

accepted_stale_id(version, latest) ==
    [kind |-> "push", status |-> "ok", new_version_id |-> latest, at |-> 0,
     all |-> FALSE, versions |-> << >>]

\* return {'new_version_id': version.version_id}
accepted(version, latest) ==
    [kind |-> "push", status |-> "ok", new_version_id |-> version, at |-> 0,
     all |-> FALSE, versions |-> << >>]

on_operation_error_returns(sess, at) ==
    [raised |-> FALSE, result |-> Rejected("operror", at), session |-> sess]

\* except OperationError: ... raise PushRejected
on_operation_error(sess, at) ==
    [raised |-> TRUE, result |-> Rejected("operror", at), session |-> sess]

\* the body of handle_push, run inside its session: what it returns or
\* raises, and the session's pending changes
push_body(data, db) ==
    LET adm == admission(data, db.versions) IN
    IF adm # "admitted" THEN
        [raised |-> TRUE, result |-> Rejected(adm, 0), session |-> db]
    ELSE
        LET p == perform_all(data.operations, 1, db.rows)
            performed == [db EXCEPT !.rows = p.rows]
            version == NextVersionId(db.versions)
        IN  IF p.error THEN on_operation_error(performed, p.at)
            ELSE [raised |-> FALSE,
                  result |-> accepted(version, get_latest_version_id(db.versions)),
                  session |-> [versions |-> db.versions \cup {version},
                               operations |-> db.operations \cup
                                   inserted_operations(data.operations, db.operations, version),
                               rows |-> p.rows]]

\* core.with_transaction: commit what the body did, or roll back if it raised
with_transaction(out, db) == IF out.raised THEN db ELSE out.session

DB == [versions |-> versions, operations |-> operations, rows |-> rows]

\* a push request starts: its message was computed against latest_version_id v
StartPush(p, v) ==
    /\ pc[p] = "idle"
    /\ NextVersionId(versions) <= MaxVersions
    /\ pc' = [pc EXCEPT ![p] = "started"]
    /\ given' = [given EXCEPT ![p] = v]
    /\ seen' = [seen EXCEPT ![p] = get_latest_version_id(versions)]
    /\ UNCHANGED <<versions, operations, rows, response>>
    /\ UNCHANGED clientVars

\* handle_push(data) of request p, as one transaction
handle_push(p, data) ==
    /\ pc[p] = "started"
    /\ LET out == push_body(data, DB)
           db2 == with_transaction(out, DB)
       IN  /\ versions' = db2.versions
           /\ operations' = db2.operations
           /\ rows' = db2.rows
           /\ response' = out.result
    /\ pc' = [pc EXCEPT ![p] = "idle"]
    /\ given' = [given EXCEPT ![p] = None]
    /\ seen' = [seen EXCEPT ![p] = None]
    /\ UNCHANGED clientVars

HandlePush == \E p \in Requests : \E data \in PushData(given[p]) : handle_push(p, data)

(* -------------------------------- trim --------------------------------- *)

trim_keeps_latest_operations ==
    LET last_id == get_latest_version_id(versions) IN
    /\ operations' = {o \in operations : o.version_id \in {None, last_id}}
    /\ versions' = {v \in versions : v = last_id}
    /\ UNCHANGED <<rows, pc, given, seen, response>>
    /\ UNCHANGED clientVars

\* trim(session): delete every Operation with a version_id, and every
\* Version but the latest
trim ==
    LET last_id == get_latest_version_id(versions) IN
    /\ operations' = {o \in operations : o.version_id = None}
    /\ versions' = {v \in versions : v = last_id}
    /\ UNCHANGED <<rows, pc, given, seen, response>>
    /\ UNCHANGED clientVars

(* ----------------------------- handle_pull ------------------------------ *)

\* what data.get('latest_version_id') can be: absent, a string that is no
\* number, a string of digits, an integer
PullInputs ==
    [kind : {"absent", "text"}, n : {0}]
    \cup [kind : {"digits", "int"}, n : 0..(MaxVersions + 1)]

\* int(latest_version_id), None on ValueError / TypeError
parse_version(raw) == IF raw.kind \in {"digits", "int"} THEN raw.n ELSE None

Permutations_(S) ==
    {s \in [1..Cardinality(S) -> S] : \A i, j \in 1..Cardinality(S) : i # j => s[i] # s[j]}

QueryVersions_none_is_latest(latest_version_id) ==
    Permutations_(IF latest_version_id # None
                  THEN {v \in versions : v > latest_version_id}
                  ELSE {})

\* session.query(Version)[.filter(version_id > latest_version_id)]: the rows
\* that match, in the order the database yields them (the query has no ORDER BY)
QueryVersions(latest_version_id) ==
    Permutations_(IF latest_version_id # None
                  THEN {v \in versions : v > latest_version_id}
                  ELSE versions)

\* message.to_json() of the PullMessage the versions were added to
pull_message(all, vs) ==
    [kind |-> "pull", status |-> "ok", new_version_id |-> None, at |-> 0,
     all |-> all, versions |-> vs]

handle_pull(raw) ==
    /\ \E vs \in QueryVersions(parse_version(raw)) :
          response' = pull_message(parse_version(raw) = None, vs)
    /\ UNCHANGED <<versions, operations, rows, pc, given, seen>>
    /\ UNCHANGED clientVars

HandlePull == \E raw \in PullInputs : handle_pull(raw)

(* --------------------------- specification ----------------------------- *)

Init ==
    /\ versions = {}
    /\ operations = {}
    /\ rows = {}
    /\ pc = [p \in Requests |-> "idle"]
    /\ given = [p \in Requests |-> None]
    /\ seen = [p \in Requests |-> None]
    /\ response = NoResponse
    /\ compressOut = "none"
    /\ compressRuns = 0
    /\ coIn = << >>
    /\ coOut = << >>
    /\ coPass = 0
    /\ sent = NoMessage
    /\ resent = NoMessage

Next ==
    \/ \E p \in Requests : \E v \in VersionIds : StartPush(p, v)
    \/ HandlePush
    \/ trim
    \/ HandlePull

Spec == Init /\ [][Next]_vars


(* ----------------------------- compaction ------------------------------ *)

CompactionRows == {1, 2}

\* an Operation row of the node's table
Operation(order, row_id, command, version_id) ==
    [order |-> order, row_id |-> row_id, content_type_id |-> 1,
     command |-> command, version_id |-> version_id]

all_commands_u(seq) == \A k \in 1..Len(seq) : seq[k].command = "u"

\* the elements of S as a list, descending by 'order'
RECURSIVE SortedByOrderDesc(_)
SortedByOrderDesc(S) ==
    IF S = {} THEN << >>
    ELSE LET first == CHOOSE x \in S : \A y \in S \ {x} : x.order > y.order
         IN  <<first>> \o SortedByOrderDesc(S \ {first})

ObjectKeys(ops) == {<<o.row_id, o.content_type_id>> : o \in ops}

OfObject(ops, key) == {o \in ops : <<o.row_id, o.content_type_id>> = key}

\* an Operation instance compared with a str: never equal
operation_ne_str(op, str) == TRUE

\* _assert_operation_sequence(seq), seq from newest to oldest: TRUE if no
\* assertion fails
assert_operation_sequence(seq) ==
    /\ all_commands_u(SubSeq(seq, 2, Len(seq) - 1))
    /\ Len(seq) > 1 =>
          /\ operation_ne_str(seq[Len(seq)], "d")
          /\ operation_ne_str(seq[1], "i")

compress_deletes_keeps_oldest_update(seq) ==
    LET n == Len(seq)
        butOldest == SubSeq(seq, 1, n - 1)
        butNewest == SubSeq(seq, 2, n)
    IN  IF seq[n].command = "i" THEN
            IF all_commands_u(butOldest) THEN Range(butOldest)
            ELSE IF seq[1].command = "d" THEN Range(seq)
            ELSE {}
        ELSE IF seq[n].command = "u" THEN
            IF all_commands_u(butOldest) THEN Range(butOldest)
            ELSE IF seq[1].command = "d" THEN Range(butNewest)
            ELSE {}
        ELSE {}

compress_deletes_oldest_update_only(seq) ==
    LET n == Len(seq)
        butOldest == SubSeq(seq, 1, n - 1)
        butNewest == SubSeq(seq, 2, n)
    IN  IF seq[n].command = "i" THEN
            IF all_commands_u(butOldest) THEN Range(butOldest)
            ELSE IF seq[1].command = "d" THEN Range(seq)
            ELSE {}
        ELSE IF seq[n].command = "u" THEN
            IF all_commands_u(butOldest) THEN {seq[n]}
            ELSE IF seq[1].command = "d" THEN Range(butNewest)
            ELSE {}
        ELSE {}

compress_deletes_keeps_deleted_insert(seq) ==
    LET n == Len(seq)
        butOldest == SubSeq(seq, 1, n - 1)
        butNewest == SubSeq(seq, 2, n)
    IN  IF seq[n].command = "i" THEN
            IF all_commands_u(butOldest) THEN Range(butOldest)
            ELSE IF seq[1].command = "d" THEN Range(butOldest)
            ELSE {}
        ELSE IF seq[n].command = "u" THEN
            IF all_commands_u(butOldest) THEN Range(butNewest)
            ELSE IF seq[1].command = "d" THEN Range(butNewest)
            ELSE {}
        ELSE {}

\* the rows compress() deletes of one sequence of length > 1, given from
\* newest to oldest: seq[1] is the code's seq[0], seq[Len(seq)] its seq[-1]
compress_deletes(seq) ==
    LET n == Len(seq)
        butOldest == SubSeq(seq, 1, n - 1)     \* seq[:-1]
        butNewest == SubSeq(seq, 2, n)         \* seq[1:]
    IN  IF seq[n].command = "i" THEN
            IF all_commands_u(butOldest) THEN Range(butOldest)
            ELSE IF seq[1].command = "d" THEN Range(seq)
            ELSE {}
        ELSE IF seq[n].command = "u" THEN
            IF all_commands_u(butOldest) THEN Range(butNewest)
            ELSE IF seq[1].command = "d" THEN Range(butNewest)
            ELSE {}
        ELSE {}

\* the unversioned operations of each tracked object, newest first
compress_seqs(table) ==
    LET unversioned == {o \in table : o.version_id = None} IN
    {SortedByOrderDesc(OfObject(unversioned, key)) : key \in ObjectKeys(unversioned)}

compress_table_validates_late(table) ==
    LET seqs == compress_seqs(table) IN
    [status |-> IF \E seq \in seqs : ~assert_operation_sequence(seq)
                THEN "AssertionError" ELSE "ok",
     table |-> table \ UNION {compress_deletes(seq) :
                   seq \in {q \in seqs : Len(q) > 1 /\ assert_operation_sequence(q)}}]

\* compress(): how it ends and the table it leaves
compress_table(table) ==
    LET seqs == compress_seqs(table) IN
    IF \E seq \in seqs : ~assert_operation_sequence(seq)
    THEN [status |-> "AssertionError", table |-> table]
    ELSE [status |-> "ok",
          table |-> table \ UNION {compress_deletes(seq) : seq \in {q \in seqs : Len(q) > 1}}]

compress ==
    /\ compressRuns < 2
    /\ compressOut' = compress_table(operations).status
    /\ operations' = compress_table(operations).table
    /\ compressRuns' = compressRuns + 1
    /\ UNCHANGED <<coIn, coOut, coPass, sent, resent>>
    /\ UNCHANGED serverVars

compressed_of_drops_lone_delete(seq) ==
    LET n == Len(seq) IN
    IF seq[1].command = "i" /\ all_commands_u(SubSeq(seq, 2, n)) THEN {seq[1]}
    ELSE IF seq[1].command = "u" THEN
        IF all_commands_u(SubSeq(seq, 2, n)) THEN {seq[1]}
        ELSE IF seq[n].command = "d" THEN {seq[n]}
        ELSE {}
    ELSE {}

compressed_of_keeps_both_ends(seq) ==
    LET n == Len(seq) IN
    IF seq[1].command = "i" /\ all_commands_u(SubSeq(seq, 2, n)) THEN {seq[1]}
    ELSE IF seq[1].command = "u" THEN
        IF all_commands_u(SubSeq(seq, 2, n)) THEN {seq[1]}
        ELSE IF seq[n].command = "d" THEN {seq[1], seq[n]}
        ELSE {}
    ELSE IF n = 1 THEN {seq[1]}
    ELSE {}

\* what compressed_operations appends for one sequence, given from oldest to
\* newest: seq[1] is the code's seq[0], seq[Len(seq)] its seq[-1]
compressed_of(seq) ==
    LET n == Len(seq) IN
    IF seq[1].command = "i" /\ all_commands_u(SubSeq(seq, 2, n)) THEN {seq[1]}
    ELSE IF seq[1].command = "u" THEN
        IF all_commands_u(SubSeq(seq, 2, n)) THEN {seq[1]}
        ELSE IF seq[n].command = "d" THEN {seq[n]}
        ELSE {}
    ELSE IF n = 1 THEN {seq[1]}
    ELSE {}

\* compressed_operations(operations): group the list by tracked object, keep
\* what compressed_of keeps, sort by order
compressed_operations(ops) ==
    LET all == Range(ops)
        seqs == {SortedByOrder(OfObject(all, key)) : key \in ObjectKeys(all)}
    IN  SortedByOrder(UNION {compressed_of(seq) : seq \in seqs})

\* compressed_operations is called, first with the list the node holds, then
\* with its own result
CompressedOperations ==
    /\ coPass < 2
    /\ coOut' = compressed_operations(IF coPass = 0 THEN coIn ELSE coOut)
    /\ coPass' = coPass + 1
    /\ UNCHANGED <<operations, compressOut, compressRuns, coIn, sent, resent>>
    /\ UNCHANGED serverVars

\* lists of unversioned operations with distinct orders, in any arrangement
CompactionLists ==
    {s \in UNION {[1..n -> {Operation(o, r, c, None) :
                               o \in 1..MaxLen, r \in CompactionRows, c \in Commands}]
                  : n \in 0..MaxLen} :
        \A i, j \in 1..Len(s) : i # j => s[i].order # s[j].order}

\* operations of an earlier version the table may also hold
VersionedOperations ==
    {Operation(MaxLen + 1, r, "u", 1) : r \in CompactionRows}

InitC ==
    /\ coIn \in CompactionLists
    /\ \E old \in SUBSET VersionedOperations :
          /\ Cardinality(old) <= 1
          /\ operations = Range(coIn) \cup old
    /\ versions = {}
    /\ rows = {}
    /\ pc = [p \in Requests |-> "idle"]
    /\ given = [p \in Requests |-> None]
    /\ seen = [p \in Requests |-> None]
    /\ response = NoResponse
    /\ compressOut = "none"
    /\ compressRuns = 0
    /\ coOut = << >>
    /\ coPass = 0
    /\ sent = NoMessage
    /\ resent = NoMessage

NextC == compress \/ CompressedOperations

SpecC == InitC /\ [][NextC]_vars

(* ------------------- compress() on a table of several rows -------------- *)

\* a node's table of up to MaxTable unversioned operations over the tracked
\* rows, numbered as they were recorded; coIn lists them by order
InitD ==
    /\ \E n \in 0..MaxTable :
          \E r \in [1..n -> CompactionRows] : \E c \in [1..n -> Commands] :
              /\ coIn = [o \in 1..n |-> Operation(o, r[o], c[o], None)]
              /\ operations = {Operation(o, r[o], c[o], None) : o \in 1..n}
    /\ versions = {}
    /\ rows = {}
    /\ pc = [p \in Requests |-> "idle"]
    /\ given = [p \in Requests |-> None]
    /\ seen = [p \in Requests |-> None]
    /\ response = NoResponse
    /\ compressOut = "none"
    /\ compressRuns = 0
    /\ coOut = << >>
    /\ coPass = 0
    /\ sent = NoMessage
    /\ resent = NoMessage

NextD == compress

SpecD == InitD /\ [][NextD]_vars

(* -------------------------- push message codec -------------------------- *)

\* what to_json writes for one operation of the message: order, row_id,
\* content_type_id and command
operation_to_json(op) ==
    [order |-> op.order, row_id |-> op.row_id,
     content_type_id |-> op.content_type_id, command |-> op.command]

\* the Operation a PushMessage builds from one entry of the payload; it has
\* no version yet
operation_from_json(d) ==
    [order |-> d.order, row_id |-> d.row_id, content_type_id |-> d.content_type_id,
     command |-> d.command, version_id |-> None]

\* message.to_json(): {node_id, latest_version_id, operations[], signature}
to_json(message) ==
    [node_id |-> message.node_id,
     latest_version_id |-> message.latest_version_id,
     operations |-> [k \in 1..Len(message.operations) |->
                        operation_to_json(message.operations[k])],
     signature |-> message.signature]

PushMessage_renumbers(raw) ==
    [node_id |-> raw.node_id,
     latest_version_id |-> raw.latest_version_id,
     operations |-> [k \in 1..Len(raw.operations) |->
                        [operation_from_json(raw.operations[k]) EXCEPT !.order = k]],
     signature |-> raw.signature]

\* PushMessage(raw): the message parsed from a payload
PushMessage(raw) ==
    [node_id |-> raw.node_id,
     latest_version_id |-> raw.latest_version_id,
     operations |-> [k \in 1..Len(raw.operations) |->
                        operation_from_json(raw.operations[k])],
     signature |-> raw.signature]

\* session.query(models.Node).first()
first_node == 1

\* PushMessage(); message.node = node; message.add_unversioned_operations():
\* the operations of the table that have no version, in the order the
\* database yields them, signed with the node's secret
add_unversioned_operations(node) ==
    {[node_id |-> node,
      latest_version_id |-> get_latest_version_id(versions),
      operations |-> ops,
      signature |-> node] :
        ops \in Permutations_({o \in operations : o.version_id = None})}

\* test_create_message: build the message, encode it, parse the payload into
\* a new PushMessage and encode that
test_create_message ==
    /\ \E message \in add_unversioned_operations(first_node) :
          /\ sent' = to_json(message)
          /\ resent' = to_json(PushMessage(to_json(message)))
    /\ UNCHANGED <<versions, operations, rows, pc, given, seen, response>>
    /\ UNCHANGED <<compressOut, compressRuns, coIn, coOut, coPass>>

(* ------------------------- trim on a node's tables ---------------------- *)

\* the tables of a node: one that has not pulled yet (no Version), or one
\* that has pulled some Versions and holds an operation of one of them;
\* either may hold operations of its own not yet pushed (no version_id)
InitT ==
    /\ \E vs \in SUBSET (1..MaxVersions) : \E S \in SUBSET (1..MaxLen) :
          \E f \in [S -> {None} \cup vs] : \E c \in [S -> Commands] :
              /\ vs = {} \/ \E o \in S : f[o] # None
              /\ \A o \in S : f[o] # None => c[o] = "u"
              /\ versions = vs
              /\ operations = {Operation(o, 1, c[o], f[o]) : o \in S}
    /\ rows = {}
    /\ pc = [p \in Requests |-> "idle"]
    /\ given = [p \in Requests |-> None]
    /\ seen = [p \in Requests |-> None]
    /\ response = NoResponse
    /\ compressOut = "none"
    /\ compressRuns = 0
    /\ coIn = << >>
    /\ coOut = << >>
    /\ coPass = 0
    /\ sent = NoMessage
    /\ resent = NoMessage

NextT == trim \/ test_create_message

SpecT == InitT /\ [][NextT]_vars

(* ------------------------------- claims -------------------------------- *)

Handled(p) == pc[p] = "started" /\ pc'[p] = "idle"

Pulled == response' # response /\ response'.kind = "pull"

\* C1: of two concurrent pushes that carry the same latest_version_id, the
\* ledger's latest when they started, exactly one succeeds and the other is
\* rejected as stale. Stated at the handling of the later one, q: it carries
\* the id the ledger had when it started (given = seen) and the ledger has
\* advanced since, which only a push admitted on that same id, running
\* while q was waiting, can have done. Then q creates no Version and, unless
\* it is malformed, ends with the stale-version rejection.
C1_ExactlyOneSucceeds ==
    [][\A q \in Requests :
          (/\ Handled(q)
           /\ given[q] = seen[q]
           /\ get_latest_version_id(versions) # seen[q]) =>
              /\ versions' = versions
              /\ response'.status \in {"stale", "invalid"}]_vars

\* C2: a well-formed push whose latest_version_id differs from the ledger's
\* latest ends with the stale-version PushRejected and nothing else; a push
\* gets past the check only on equality.
C2_StaleIsPushRejected ==
    [][\A p \in Requests :
          (Handled(p) /\ response'.status # "invalid") =>
              IF given[p] # get_latest_version_id(versions)
              THEN response'.status = "stale"
              ELSE response'.status \in {"empty", "unsigned", "operror", "ok"}]_vars

\* the operation lists a successful push may have carried, given the step
Carried(ops) ==
    /\ ops # << >>
    /\ ~perform_all(ops, 1, rows).error
    /\ rows' = perform_all(ops, 1, rows).rows
    /\ operations' =
           operations \cup inserted_operations(ops, operations, NextVersionId(versions))

\* C3: a push one of whose operations cannot be performed is rejected with
\* PushRejected and leaves rows, versions and operations as they were; a push
\* is committed only if every operation it carried was performed.
C3_AllOrNothing ==
    [][\A p \in Requests :
          Handled(p) =>
              /\ response'.status = "operror" =>
                     /\ rows' = rows
                     /\ versions' = versions
                     /\ operations' = operations
              /\ response'.status = "ok" => \E ops \in OpLists : Carried(ops)]_vars

\* C3 witness: a push was rejected at its second operation, after its first
\* had been performed in the session
C3_Witness ==
    response.kind = "push" /\ response.status = "operror" /\ response.at >= 2

\* C4: a successful push creates exactly one Version, its id the previous
\* latest plus one (1 on an empty ledger) and above every other id, and
\* returns that id; a rejected push leaves the Version table alone.
C4_NextVersion ==
    [][\A p \in Requests :
          Handled(p) =>
              IF response'.status = "ok"
              THEN LET id == response'.new_version_id
                       latest == get_latest_version_id(versions)
                   IN  /\ id \notin versions
                       /\ versions' = versions \cup {id}
                       /\ id = IF latest = None THEN 1 ELSE latest + 1
                       /\ \A v \in versions : v < id
              ELSE versions' = versions]_vars

\* C4 witness: a second version was created after a trim, while another
\* request is waiting
C4_Witness ==
    /\ response.status = "ok" /\ response.new_version_id = 2
    /\ versions = {1, 2} /\ \A o \in operations : o.version_id = 2
    /\ \E q \in Requests : pc[q] = "started"

\* C5 (as claimed): the order stored for an operation differs from the order
\* the client submitted for it.
C5_OrderDiffersFromClient ==
    [][\A p \in Requests :
          (Handled(p) /\ response'.status = "ok") =>
              \A ops \in OpLists :
                  Carried(ops) =>
                      \A k \in 1..Len(ops) :
                          sorted(ops)[k].order # NextOrder(operations) + k - 1]_vars

\* C5 (amended): the order stored for each operation of a successful push is
\* fresh in the server's table: no stored Operation has it, no two of the
\* push's operations share it.
C5_OrderIsFresh ==
    [][\A p \in Requests :
          (Handled(p) /\ response'.status = "ok") =>
              /\ \A o \in operations' \ operations :
                     /\ o.order \notin {x.order : x \in operations}
                     /\ \A o2 \in operations' \ operations : o2.order = o.order => o2 = o
              /\ \A ops \in OpLists :
                     Carried(ops) => Cardinality(operations' \ operations) = Len(ops)]_vars

\* C5 witness: the second push stored an operation under a key other than
\* the order the client can have sent for it
C5_Witness ==
    \E o \in operations : o.version_id = 2 /\ o.order > MaxPushOps

Ascending(s) == \A i, j \in 1..Len(s) : i < j => s[i] < s[j]

\* C6: handle_pull with latest_version_id = V returns exactly the versions
\* above V, in ascending version id order.
C6_PullAscending ==
    [][Pulled => \A raw \in PullInputs :
          (handle_pull(raw) /\ parse_version(raw) # None) =>
              /\ Range(response'.versions) = {v \in versions : v > parse_version(raw)}
              /\ Len(response'.versions) = Cardinality(Range(response'.versions))
              /\ Ascending(response'.versions)]_vars

\* C7: handle_pull always succeeds, changes no table, and returns every
\* Version when latest_version_id is absent or no integer.
C7_PullNeverRejects ==
    [][Pulled =>
          /\ response'.status = "ok"
          /\ UNCHANGED <<versions, operations, rows>>
          /\ \A raw \in PullInputs :
                 (handle_pull(raw) /\ raw.kind \in {"absent", "text"}) =>
                     /\ response'.all
                     /\ Range(response'.versions) = versions
                     /\ Len(response'.versions) = Cardinality(versions)]_vars

\* C7 witness: a pull without a usable latest_version_id returned two versions
C7_Witness ==
    /\ response.kind = "pull" /\ response.status = "ok"
    /\ response.all /\ Len(response.versions) >= 2


\* a push message that fails one of the admission checks on the ledger vs
FailsAdmission(data, vs) ==
    \/ ~data.valid
    \/ data.latest_version_id # get_latest_version_id(vs)
    \/ data.operations = << >>
    \/ ~islegit(data)

PushRejectedAtAdmission == {"invalid", "stale", "empty", "unsigned"}

\* C14: a push that fails admission control (malformed, version mismatch,
\* no operations, signature that does not verify) ends with PushRejected
\* and leaves Versions, Operations and tracked rows as they were; a push
\* without operations creates no Version.
C14_AdmissionFailure ==
    [][\A p \in Requests :
          Handled(p) =>
              \A data \in PushData(given[p]) :
                  (handle_push(p, data) /\ FailsAdmission(data, versions)) =>
                      /\ response'.kind = "push"
                      /\ response'.status \in PushRejectedAtAdmission
                      /\ UNCHANGED <<versions, operations, rows>>]_vars

\* C16: the operations of an admitted push are performed in ascending
\* client order, whatever their position in the message's list: the push
\* ends as performing them in that order ends, committed with the rows so
\* obtained or rejected at the operation that cannot be performed then.
C16_PerformedAscending ==
    [][\A p \in Requests :
          Handled(p) =>
              \A data \in PushData(given[p]) :
                  (handle_push(p, data) /\ admission(data, versions) = "admitted") =>
                      LET r == perform_all(sorted(data.operations), 1, rows) IN
                      IF r.error
                      THEN response'.status = "operror" /\ rows' = rows
                      ELSE response'.status = "ok" /\ rows' = r.rows]_vars

\* the reason of the earliest admission check the message fails, the checks
\* taken in the order parse, version, non-empty, signature
EarliestFailure(data, vs) ==
    IF ~data.valid THEN "invalid"
    ELSE IF data.latest_version_id # get_latest_version_id(vs) THEN "stale"
    ELSE IF data.operations = << >> THEN "empty"
    ELSE IF ~islegit(data) THEN "unsigned"
    ELSE "none"

\* C17: a push that fails admission is rejected with the reason of the
\* earliest check it fails, in the order parse, version, non-empty,
\* signature: a stale push is reported stale even when it has no operations
\* or a wrong signature, an empty one empty even when wrongly signed.
C17_AdmissionOrder ==
    [][\A p \in Requests :
          Handled(p) =>
              \A data \in PushData(given[p]) :
                  (handle_push(p, data) /\ EarliestFailure(data, versions) # "none") =>
                      response'.status = EarliestFailure(data, versions)]_vars

\* C20: a successful push of k operations adds exactly k Operation rows,
\* all linked to the Version it created; taken by their server order they
\* are the submitted operations taken by ascending client order; and in the
\* table every operation of a later version has a greater order than every
\* operation of an earlier version.
C20_CommittedLog ==
    [][/\ \A p \in Requests :
              (Handled(p) /\ response'.status = "ok") =>
                  \A ops \in OpLists :
                      Carried(ops) =>
                          LET added == operations' \ operations IN
                          /\ Cardinality(added) = Len(ops)
                          /\ Cardinality({o.order : o \in added}) = Len(ops)
                          /\ \A o \in added : o.version_id = response'.new_version_id
                          /\ \A k \in 1..Len(ops) :
                                 LET o == SortedByOrder(added)[k]
                                     c == sorted(ops)[k]
                                 IN  /\ o.row_id = c.row_id
                                     /\ o.content_type_id = c.content_type_id
                                     /\ o.command = c.command
       /\ \A o1, o2 \in operations' :
              o1.version_id < o2.version_id => o1.order < o2.order]_vars

\* C20 witness: two pushes of MaxPushOps operations each were committed and
\* the table holds the operations of both versions
C20_Witness ==
    /\ response.status = "ok" /\ response.new_version_id = 2
    /\ Cardinality({o \in operations : o.version_id = 1}) = MaxPushOps
    /\ Cardinality({o \in operations : o.version_id = 2}) = MaxPushOps

(* -------------------------- compaction claims --------------------------- *)

Unversioned(table) == {o \in table : o.version_id = None}

\* the operations of one tracked object in the list the node started with,
\* oldest first
Started(key) == SortedByOrder(OfObject(Range(coIn), key))

\* what is left of them in the table
Left(key) == OfObject(Unversioned(operations), key)

\* what the table of section 4.2 leaves of a sequence given oldest first
Compacted(L) ==
    LET n == Len(L) IN
    IF n > 1 /\ L[1].command = "i" /\ all_commands_u(SubSeq(L, 2, n)) THEN {L[1]}
    ELSE IF n > 1 /\ L[1].command = "i" /\ L[n].command = "d" THEN {}
    ELSE IF n > 1 /\ all_commands_u(L) THEN {L[n]}
    ELSE IF n > 1 /\ L[1].command = "u" /\ L[n].command = "d" THEN {L[n]}
    ELSE Range(L)

\* C8 (as claimed): after compress(), of every object's sequence of length
\* > 1: Insert then Updates leaves the Insert; Insert ... Delete leaves
\* nothing; all Updates leaves the newest; Update ... Delete leaves the
\* Delete; any other sequence is as it was.
C8_CompressEverySequence ==
    compressRuns = 1 =>
        \A key \in ObjectKeys(Range(coIn)) : Left(key) = Compacted(Started(key))

\* C8 (amended): the same, for a compress() that ran to completion; one that
\* raised has deleted nothing. Versioned operations stay in either case.
C8_CompressValidated ==
    compressRuns = 1 =>
        /\ compressOut = "ok" =>
               \A key \in ObjectKeys(Range(coIn)) : Left(key) = Compacted(Started(key))
        /\ compressOut = "AssertionError" => Unversioned(operations) = Range(coIn)
        /\ compressOut \in {"ok", "AssertionError"}
        /\ operations \ Unversioned(operations) \in SUBSET VersionedOperations
        /\ Cardinality(operations \ Unversioned(operations)) + Cardinality(Range(coIn))
               >= Cardinality(operations)

\* C8 witness: compress() ran to completion on three unversioned operations
\* beside a versioned one, and deleted part of an object's sequence
C8_Witness ==
    /\ compressRuns = 1 /\ compressOut = "ok"
    /\ Len(coIn) = MaxLen
    /\ \E key \in ObjectKeys(Range(coIn)) :
          Len(Started(key)) > 1 /\ Left(key) # Range(Started(key))
    /\ \E o \in operations : o.version_id # None

\* a sequence of one object, oldest first, that section 4.1 allows
Legal(L) ==
    /\ all_commands_u(SubSeq(L, 2, Len(L) - 1))
    /\ Len(L) > 1 => (L[1].command # "d" /\ L[Len(L)].command # "i")

\* C9: on a list whose sequences are legal, compressed_operations returns a
\* sub-list sorted ascending by order that holds, per object: the Insert of
\* Insert-Updates; nothing of Insert ... Delete; one Update of an all-Update
\* run; the Delete of Updates-Delete; a single operation as it is.
C9_PureCompaction ==
    (coPass = 1 /\ \A key \in ObjectKeys(Range(coIn)) : Legal(Started(key))) =>
        /\ Range(coOut) \subseteq Range(coIn)
        /\ \A i, j \in 1..Len(coOut) : i < j => coOut[i].order < coOut[j].order
        /\ \A key \in ObjectKeys(Range(coIn)) :
              LET L == Started(key)
                  n == Len(L)
                  kept == OfObject(Range(coOut), key)
              IN  IF n = 1 THEN kept = {L[1]}
                  ELSE IF L[1].command = "i" /\ all_commands_u(SubSeq(L, 2, n))
                       THEN kept = {L[1]}
                  ELSE IF L[1].command = "i" /\ L[n].command = "d" THEN kept = {}
                  ELSE IF all_commands_u(L)
                       THEN \E o \in Range(L) : kept = {o} /\ o.command = "u"
                  ELSE kept = {L[n]} /\ L[n].command = "d"

\* C9 witness: a list of three out of order, over two objects, one of them a
\* lone Delete, was compacted
C9_Witness ==
    /\ coPass = 1
    /\ \A key \in ObjectKeys(Range(coIn)) : Legal(Started(key))
    /\ Len(coIn) = MaxLen /\ coIn[1].order > coIn[2].order
    /\ \E key \in ObjectKeys(Range(coIn)) :
          Len(Started(key)) = 1 /\ Started(key)[1].command = "d"
    /\ Len(coOut) = 2

\* C10: a second compress() deletes nothing, and compressed_operations of
\* its own result returns that result.
C10_Idempotent ==
    [][/\ (compressRuns = 1 /\ compressRuns' = 2) => operations' = operations
       /\ (coPass = 1 /\ coPass' = 2) => coOut' = coOut]_vars

\* C10 witness: both compactions ran twice on operations the first run
\* had reduced
C10_Witness ==
    /\ compressRuns = 2 /\ compressOut = "ok" /\ coPass = 2
    /\ Unversioned(operations) # Range(coIn)
    /\ Len(coOut) < Len(coIn)

\* the state of one tracked row under replay: "absent", "unchanged" (present
\* as it was before the sequence) or "changed" (present, written since);
\* "error" if an operation cannot be performed on it
replay_one(state, op) ==
    CASE op.command = "i" -> IF state = "absent" THEN "changed" ELSE "error"
      [] op.command = "u" -> IF state \in {"unchanged", "changed"} THEN "changed" ELSE "error"
      [] op.command = "d" -> IF state \in {"unchanged", "changed"} THEN "absent" ELSE "error"

RECURSIVE replay(_, _, _)
replay(L, i, state) ==
    IF i > Len(L) THEN state ELSE replay(L, i + 1, replay_one(state, L[i]))

\* the row state a sequence, given oldest first, starts from: a row whose
\* history begins with its Insert was absent, any other was present
Fresh(L) == IF L[1].command = "i" THEN "absent" ELSE "unchanged"

\* what compressed_operations returned of one tracked object, oldest first
Returned(key) == SortedByOrder(OfObject(Range(coOut), key))

\* C11: for every legal sequence of one row, replaying what compress() left
\* of it, and replaying what compressed_operations returned of it, from the
\* row state the sequence started from ends in the same row state (absent,
\* present unchanged, present changed) as replaying the sequence itself.
C11_NetEffect ==
    \A key \in ObjectKeys(Range(coIn)) :
        LET L == Started(key) IN
        Legal(L) =>
            /\ replay(L, 1, Fresh(L)) # "error"
            /\ compressRuns = 1 =>
                   replay(SortedByOrder(Left(key)), 1, Fresh(L)) = replay(L, 1, Fresh(L))
            /\ coPass = 1 =>
                   replay(Returned(key), 1, Fresh(L)) = replay(L, 1, Fresh(L))

\* C11 witness: both compactions ran on a legal sequence of three operations
\* that ends with the row absent, and both reduced it
C11_Witness ==
    /\ compressRuns = 1 /\ compressOut = "ok" /\ coPass = 1
    /\ \E key \in ObjectKeys(Range(coIn)) :
          LET L == Started(key) IN
          /\ Legal(L) /\ Len(L) = MaxLen
          /\ replay(L, 1, Fresh(L)) = "absent"
          /\ Left(key) # Range(L)
          /\ Range(Returned(key)) # Range(L)

\* C12: the validator raises for exactly the illegal sequences: compress(),
\* which validates every row's sequence first, ends in AssertionError if and
\* only if some row's sequence has an interior operation that is no Update,
\* or has more than one operation and a Delete as its oldest or an Insert
\* as its newest.
C12_ValidatorExact ==
    compressRuns = 1 =>
        (compressOut = "AssertionError"
            <=> \E key \in ObjectKeys(Range(coIn)) : ~Legal(Started(key)))

\* C13: a trim() leaves no Operation with a version_id, leaves of the
\* Versions only the one with the greatest id, leaves the latest version id
\* what it was and every unversioned Operation as it was; it runs in every
\* state.
C13_Trim ==
    [][/\ trim =>
              /\ \A o \in operations' : o.version_id = None
              /\ versions' = (IF versions = {} THEN {} ELSE {Max(versions)})
              /\ get_latest_version_id(versions') = get_latest_version_id(versions)
              /\ Unversioned(operations') = Unversioned(operations)
       /\ ENABLED trim]_vars

\* C13 witness: trim() ran on a node that held unversioned operations
\* beside pulled ones: the latest Version and those operations are left
C13_Witness ==
    /\ versions = {MaxVersions}
    /\ Cardinality(operations) >= 2
    /\ \A o \in operations : o.version_id = None

\* how often the list ops holds an operation with the properties of op
Count(ops, op) == Cardinality({k \in 1..Len(ops) : ops[k] = op})

Validates(key) ==
    assert_operation_sequence(SortedByOrderDesc(OfObject(Unversioned(operations), key)))

\* C18: when the unversioned operations of some row fail validation,
\* compress() raises and the operations table is what it was, for every
\* row.
C18_RaisesBeforeDeleting ==
    [][(/\ compressRuns' = compressRuns + 1
        /\ \E key \in ObjectKeys(Unversioned(operations)) : ~Validates(key)) =>
            /\ compressOut' = "AssertionError"
            /\ operations' = operations]_vars

\* C18 witness: compress() raised on a table where one row's sequence fails
\* validation and the other row's is legal and would have been compacted
C18_Witness ==
    /\ compressRuns = 1 /\ compressOut = "AssertionError"
    /\ operations = Range(coIn)
    /\ \E key \in ObjectKeys(Range(coIn)) :
          /\ Legal(Started(key))
          /\ Len(Started(key)) > 1
          /\ Compacted(Started(key)) # Range(Started(key))

\* the commands of a list of operations, in its order
CommandsOf(L) == [k \in 1..Len(L) |-> L[k].command]

\* C19: of every legal sequence of one row, a compress() that ran to
\* completion and compressed_operations leave the same commands, and the
\* same operation records, except of an all-Update run of length > 1: there
\* compress() leaves the Update of greatest order, compressed_operations
\* returns the Update of smallest order.
C19_DestructiveAndPure ==
    (compressRuns = 1 /\ compressOut = "ok" /\ coPass = 1) =>
        \A key \in ObjectKeys(Range(coIn)) :
            LET L == Started(key) IN
            Legal(L) =>
                /\ CommandsOf(SortedByOrder(Left(key))) = CommandsOf(Returned(key))
                /\ IF Len(L) > 1 /\ all_commands_u(L)
                   THEN Left(key) = {L[Len(L)]} /\ Range(Returned(key)) = {L[1]}
                   ELSE Left(key) = Range(Returned(key))

\* C19 witness: both compactions ran on an all-Update run of MaxLen
\* operations and kept different Updates of it
C19_Witness ==
    /\ compressRuns = 1 /\ compressOut = "ok" /\ coPass = 1
    /\ \E key \in ObjectKeys(Range(coIn)) :
          /\ Len(Started(key)) = MaxLen /\ all_commands_u(Started(key))
          /\ Left(key) # Range(Returned(key))

====
